---- MODULE Spec2Model ----
(***************************************************************************)
(* A model of the Rummy game of src/main.py: the cards, the two            *)
(* combination validators (is_valid_set, is_valid_run) and the turn loop   *)
(* of RummyGame.play with its win-check sub-phase.                         *)
(*                                                                         *)
(* Python lists are sequences; a Python index k (0-based, negative counts  *)
(* from the end) is position k+1, or k+Len+1 when k < 0.  A call that      *)
(* raises (IndexError, UnboundLocalError) ends the program: pc = "crashed".*)
(***************************************************************************)
EXTENDS Integers, Sequences, FiniteSets, TLC

VARIABLES
    pc,               \* where play() is: the input it waits for, or how it ended
    players,          \* RummyGame.players: the hands, in the order of play
    deck,             \* RummyGame.deck.cards (the top is the last element)
    discard_card_pile,\* RummyGame.discard_card_pile (the top is the last element)
    wild_card,        \* RummyGame.wild_card
    turn,             \* the position in players of the player whose turn it is
    player_hand,      \* play(): the working copy of the hand (validators: hand)
    has_atleast_one_natural, \* play(): the has-natural flag of the win check
    set_flag,         \* play(): result of the last is_valid_set; <<>> = unbound
    card_ind,         \* the index list given to the validators on their own;
                      \* play() reads its card_ind only in the handler that
                      \* assigns it, so the game keeps none
    run_flag,         \* the result of is_valid_run on its own; play() never
                      \* reads its run_flag after the handler that assigns it
    accepted,         \* history: the groups accepted since the win check began
    count             \* history: the turns begun, the optional moves made (a
                      \* draw kept, a rearrangement, a check, a reset) and
                      \* the recycles of the discard pile so far

vars == <<pc, players, deck, discard_card_pile, wild_card, turn, player_hand,
          has_atleast_one_natural, card_ind, set_flag, run_flag, accepted, count>>

gameVars == <<players, deck, discard_card_pile, turn, has_atleast_one_natural,
              accepted, count>>

(***************************************************************************)
(* Cards                                                                   *)
(***************************************************************************)
NumSuits == 4
MaxRank == 13
JokerRank == 14
JokerSuit == 4

Card(suit, rank) == [suit |-> suit, rank |-> rank]

Joker == Card(JokerSuit, JokerRank)

(***************************************************************************)
(* Python list operations                                                  *)
(***************************************************************************)
\* lst[k] is defined (no IndexError)
PyInRange(lst, k) == k >= -Len(lst) /\ k < Len(lst)

\* 1-based position of Python index k
PyPos(lst, k) == IF k < 0 THEN k + Len(lst) + 1 ELSE k + 1

PyGet(lst, k) == lst[PyPos(lst, k)]

\* lst after lst.pop(k)
PyPop(lst, k) ==
    LET p == PyPos(lst, k)
    IN  [j \in 1..(Len(lst) - 1) |-> IF j < p THEN lst[j] ELSE lst[j + 1]]

\* the key of cards.sort(key = lambda card: (card.suit, card.rank))
SuitRankLess(a, b) == a.suit < b.suit \/ (a.suit = b.suit /\ a.rank < b.rank)

\* insert c behind every card whose key is not greater (a stable sort)
RECURSIVE InsertBySuitRank(_, _)
InsertBySuitRank(sorted, c) ==
    IF sorted = <<>> THEN <<c>>
    ELSE IF SuitRankLess(c, Head(sorted)) THEN <<c>> \o sorted
    ELSE <<Head(sorted)>> \o InsertBySuitRank(Tail(sorted), c)

RECURSIVE SortBySuitRank(_)
SortBySuitRank(cards) ==
    IF cards = <<>> THEN <<>>
    ELSE InsertBySuitRank(SortBySuitRank(SubSeq(cards, 1, Len(cards) - 1)),
                          cards[Len(cards)])

(***************************************************************************)
(* The validators                                                          *)
(***************************************************************************)
IsWildJokerOnly(card, wild) == card.rank = JokerRank

\* the test of lines 129 and 141
IsWild(card, wild) == card.rank = JokerRank \/ card.rank = wild.rank

\* hand[ind-1] raises IndexError for some ind of the list
IndexRaises(hand, cards_ind) ==
    \E k \in 1..Len(cards_ind) : ~PyInRange(hand, cards_ind[k] - 1)

\* cards = [hand[ind-1] for ind in cards_ind]
SelectCards(hand, cards_ind) ==
    [k \in 1..Len(cards_ind) |-> PyGet(hand, cards_ind[k] - 1)]

\* lines 128-131: "for i, card in enumerate(cards)" while cards.pop(i) shrinks
\* the list under the iterator; i is the iterator's 0-based position.
RECURSIVE SetLoop(_, _, _, _)
SetLoop(cards, i, joker_counter, wild) ==
    IF i >= Len(cards) THEN <<cards, joker_counter>>
    ELSE IF IsWild(cards[i + 1], wild)
         THEN SetLoop(PyPop(cards, i), i + 1, joker_counter + 1, wild)
         ELSE SetLoop(cards, i + 1, joker_counter, wild)

\* the result list; <<>> when the call raises
is_valid_set(hand, cards_ind, wild) ==
    IF Len(cards_ind) < 3 THEN <<FALSE>>
    ELSE IF IndexRaises(hand, cards_ind) THEN <<>>
    ELSE LET r == SetLoop(SelectCards(hand, cards_ind), 0, 0, wild)
             cards == r[1]
         IN  <<Cardinality({cards[k].rank : k \in 1..Len(cards)}) = 1, r[2] = 0>>

\* lines 140-143: "for i in range(len(cards))", popping at i - joker_counter
RECURSIVE RunLoop(_, _, _, _, _)
RunLoop(cards, i, n, joker_counter, wild) ==
    IF i >= n THEN <<cards, joker_counter>>
    ELSE IF IsWild(PyGet(cards, i - joker_counter), wild)
         THEN RunLoop(PyPop(cards, i - joker_counter), i + 1, n, joker_counter + 1, wild)
         ELSE RunLoop(cards, i + 1, n, joker_counter, wild)

RECURSIVE RunWalkOffByOne(_, _, _)
RunWalkOffByOne(cards, i, wild_card_counter) ==
    IF i >= Len(cards) THEN TRUE
    ELSE LET cur == cards[i + 1]
             prev == cards[i]
         IN  IF cur.suit # prev.suit \/ cur.rank = prev.rank THEN FALSE
             ELSE IF cur.rank = prev.rank + 1
                  THEN RunWalkOffByOne(cards, i + 1, wild_card_counter)
             ELSE IF cur.rank <= wild_card_counter + prev.rank
                  THEN RunWalkOffByOne(cards, i + 1,
                           wild_card_counter - (cur.rank - prev.rank - 1))
             ELSE FALSE

\* lines 146-154: "for i in range(1, len(cards))"; i is the 0-based index
RECURSIVE RunWalk(_, _, _)
RunWalk(cards, i, wild_card_counter) ==
    IF i >= Len(cards) THEN TRUE
    ELSE LET cur == cards[i + 1]
             prev == cards[i]
         IN  IF cur.suit # prev.suit \/ cur.rank = prev.rank THEN FALSE
             ELSE IF cur.rank = prev.rank + 1
                  THEN RunWalk(cards, i + 1, wild_card_counter)
             ELSE IF cur.rank <= wild_card_counter + prev.rank + 1
                  THEN RunWalk(cards, i + 1,
                           wild_card_counter - (cur.rank - prev.rank - 1))
             ELSE FALSE

is_valid_run_min2(hand, cards_ind, wild) ==
    IF Len(cards_ind) < 2 THEN <<FALSE>>
    ELSE IF IndexRaises(hand, cards_ind) THEN <<>>
    ELSE LET cards0 == SelectCards(hand, cards_ind)
             r == RunLoop(cards0, 0, Len(cards0), 0, wild)
         IN  IF RunWalk(SortBySuitRank(r[1]), 1, r[2])
             THEN <<TRUE, r[2] = 0>> ELSE <<FALSE>>

\* the result list; <<>> when the call raises
is_valid_run(hand, cards_ind, wild) ==
    IF Len(cards_ind) < 3 THEN <<FALSE>>
    ELSE IF IndexRaises(hand, cards_ind) THEN <<>>
    ELSE LET cards0 == SelectCards(hand, cards_ind)
             r == RunLoop(cards0, 0, Len(cards0), 0, wild)
         IN  IF RunWalk(SortBySuitRank(r[1]), 1, r[2])
             THEN <<TRUE, r[2] = 0>> ELSE <<FALSE>>

(***************************************************************************)
(* The validators on their own: a hand, a wild card and an index list are  *)
(* drawn from bounded sets and both validators are applied.                *)
(***************************************************************************)
HandLenV == 4
MaxSelV == 4

\* the cards the drawn hands are made of, in the order of Deck.__init__:
\* Ace, 2, 3, 5 and King of Club, the Aces of Diamond and Hearts, the Joker
PoolV ==
    <<Card(0, 1), Card(0, 2), Card(0, 3), Card(0, 5), Card(0, 13),
      Card(1, 1), Card(2, 1), Joker>>

\* the wild cards drawn: Ace, 2 and 5 make cards of the pool wild, with the
\* 8 only the Joker is
WildCardsV == {Card(3, 1), Card(3, 2), Card(3, 5), Card(3, 8)}

RECURSIVE SeqOfPositions(_)
SeqOfPositions(S) ==
    IF S = {} THEN <<>>
    ELSE LET m == CHOOSE x \in S : \A y \in S : x <= y
         IN  <<PoolV[m]>> \o SeqOfPositions(S \ {m})

HandsV ==
    {SeqOfPositions(S) : S \in {T \in SUBSET (1..Len(PoolV)) : Cardinality(T) = HandLenV}}

SeqsOver(S, lo, hi) == UNION {[1..n -> S] : n \in lo..hi}

\* short lists and triples over every index, also 0 (the last card) and
\* HandLenV+1 (IndexError); longer lists over the positions of the hand
IndexListsV ==
    SeqsOver(0..(HandLenV + 1), 0, 3) \cup SeqsOver(1..HandLenV, 3, MaxSelV)

InitV ==
    /\ pc = "input"
    /\ player_hand \in HandsV
    /\ wild_card \in WildCardsV
    /\ card_ind = <<>>
    /\ set_flag = <<>>
    /\ run_flag = <<>>
    /\ players = <<>>
    /\ deck = <<>>
    /\ discard_card_pile = <<>>
    /\ turn = 1
    /\ has_atleast_one_natural = FALSE
    /\ accepted = <<>>
    /\ count = [turns |-> 0, moves |-> 0, recycles |-> 0]

Validate ==
    /\ pc = "input"
    /\ \E ind \in IndexListsV :
          /\ card_ind' = ind
          /\ set_flag' = is_valid_set(player_hand, ind, wild_card)
          /\ run_flag' = is_valid_run(player_hand, ind, wild_card)
    /\ pc' = "validated"
    /\ UNCHANGED <<player_hand, wild_card>>
    /\ UNCHANGED gameVars

NextV == Validate

SpecV == InitV /\ [][NextV]_vars

(***************************************************************************)
(* The game: RummyGame.__init__, deal_intial_card and play                 *)
(***************************************************************************)
HandSize == 10

\* The bounds of the games followed: the turns begun, and the optional moves
\* (a draw kept, a rearrangement, a check or a reset) made in one game.
MaxTurns == 13
MaxMoves == 2

\* The players who make optional moves; the others draw from the deck,
\* discard the drawn card and end their turn.
ActivePlayers == {1}

MayMove == turn \in ActivePlayers /\ count.moves < MaxMoves

\* Deck.__init__ before the shuffle: suit by suit, ranks 1..13, then the Joker
NewDeck ==
    [k \in 1..(NumSuits * MaxRank) |->
        Card((k - 1) \div MaxRank, ((k - 1) % MaxRank) + 1)] \o <<Joker>>

\* One outcome of random.shuffle on the new deck: position i holds the card
\* at a*i + b (mod 53); a permutation, as 53 is prime and a is not 0 mod 53.
ShuffledDeck(a, b) ==
    [i \in 1..Len(NewDeck) |-> NewDeck[((a * i + b) % Len(NewDeck)) + 1]]

\* The games played: <<number of players, a, b>>.
\*   <<4, 13, 26>>: wild card Ace of Diamond; player 1 holds Ace..10 of Club,
\*                  player 2 holds 2..Jack of Spades
\*   <<4, 10, 46>>: wild card Jack of Hearts; player 1 holds two Aces, the
\*                  Joker, four Kings and three Queens
\*   <<2, 26, 0>>, <<3, 7, 5>>: two and three players
Setups == {<<4, 13, 26>>, <<4, 10, 46>>, <<2, 26, 0>>, <<3, 7, 5>>}

\* the deck after __init__ popped the first discard and the wild card
AfterInit(d) == SubSeq(d, 1, Len(d) - 2)

\* deal_intial_card: n_cards rounds, one pop_card per player in each
deal_intial_card(cards, n) ==
    [p \in 1..n |->
        [r \in 1..HandSize |-> cards[Len(cards) - ((r - 1) * n + (p - 1))]]]

Init ==
    \E s \in Setups :
        LET n == s[1]
            d == ShuffledDeck(s[2], s[3])
        IN  /\ discard_card_pile = <<d[Len(d)]>>
            /\ wild_card = d[Len(d) - 1]
            /\ players = deal_intial_card(AfterInit(d), n)
            /\ deck = SubSeq(d, 1, Len(d) - 2 - HandSize * n)
            /\ turn = 1
            /\ pc = "draw"
            /\ player_hand = <<>>
            /\ has_atleast_one_natural = FALSE
            /\ card_ind = <<>>
            /\ set_flag = <<>>
            /\ run_flag = <<>>
            /\ accepted = <<>>
            /\ count = [turns |-> 0, moves |-> 0, recycles |-> 0]

Front(lst) == SubSeq(lst, 1, Len(lst) - 1)

Last(lst) == lst[Len(lst)]

Reverse(lst) == [k \in 1..Len(lst) |-> lst[Len(lst) + 1 - k]]

\* the outcomes of random.shuffle that are followed: the order kept, the
\* order reversed, the first card moved behind the others
ShuffleOutcomes(cards) ==
    {cards, Reverse(cards)} \cup
    (IF cards = <<>> THEN {} ELSE {Tail(cards) \o <<Head(cards)>>})

RecycledCardsWithTop(pile) == pile

\* lines 202-203: the cards copied into the deck, the top card popped first
RecycledCards(pile) == Front(pile)

\* the recycle without line 206: the top card is not put back on the pile
BeforePopNoSeed ==
    IF deck = <<>>
    THEN {<<d, <<>>>> : d \in ShuffleOutcomes(RecycledCards(discard_card_pile))}
    ELSE {<<deck, discard_card_pile>>}

\* lines 201-206: <<deck.cards, discard_card_pile>> before pop_card
BeforePop ==
    IF deck = <<>>
    THEN {<<d, <<Last(discard_card_pile)>>>> :
              d \in ShuffleOutcomes(RecycledCards(discard_card_pile))}
    ELSE {<<deck, discard_card_pile>>}

\* a turn loop that steps over the next player
NextTurnSkips ==
    /\ turn' = ((turn + 1) % Len(players)) + 1
    /\ pc' = IF discard_card_pile' = <<>> THEN "crashed" ELSE "draw"

\* the for loop of line 188 moves on: line 191 reads the top of the pile
NextTurn ==
    /\ turn' = (turn % Len(players)) + 1
    /\ pc' = IF discard_card_pile' = <<>> THEN "crashed" ELSE "draw"

Bump(field) == [count EXCEPT ![field] = @ + 1]

checkLocals == <<player_hand, has_atleast_one_natural, card_ind, set_flag,
                 run_flag, accepted>>

\* what the player may answer to "Which card would you like to discard":
\* 1 is the first card, 0 is Python index -1 (the last card), 11 raises
\* IndexError
DiscardInputs == {0, 1, HandSize + 1}

\* a discard-pile draw that adds the drawn card without the hand discard
DrawFromDiscardPileNoDiscard ==
    /\ pc = "draw"
    /\ count.turns < MaxTurns /\ MayMove
    /\ players' = [players EXCEPT ![turn] = Append(@, Last(discard_card_pile))]
    /\ discard_card_pile' = Front(discard_card_pile)
    /\ pc' = "rearrange"
    /\ count' = [count EXCEPT !.turns = @ + 1, !.moves = @ + 1]
    /\ UNCHANGED <<deck, wild_card, turn>>
    /\ UNCHANGED checkLocals

\* lines 195-199: draw the top of the discard pile, discard a card of the
\* hand (discardCardFromHand, lines 178-182), add the drawn card
DrawFromDiscardPile ==
    /\ pc = "draw"
    /\ count.turns < MaxTurns /\ MayMove
    /\ \E inp \in DiscardInputs :
        LET hand == players[turn]
            drawn_card == Last(discard_card_pile)
            pile == Front(discard_card_pile)
        IN  IF PyInRange(hand, inp - 1)
            THEN /\ players' = [players EXCEPT
                                   ![turn] = Append(PyPop(hand, inp - 1), drawn_card)]
                 /\ discard_card_pile' = Append(pile, PyGet(hand, inp - 1))
                 /\ pc' = "rearrange"
            ELSE /\ players' = players
                 /\ discard_card_pile' = pile
                 /\ pc' = "crashed"
    /\ count' = [count EXCEPT !.turns = @ + 1, !.moves = @ + 1]
    /\ UNCHANGED <<deck, wild_card, turn>>
    /\ UNCHANGED checkLocals

\* lines 200-213: draw from the deck, recycled first when it is empty, and
\* keep the card: discard a card of the hand, add the drawn card
DrawFromDeckKeep ==
    /\ pc = "draw"
    /\ count.turns < MaxTurns /\ MayMove
    /\ \E b \in BeforePop, inp \in DiscardInputs :
        LET hand == players[turn]
        IN  IF b[1] = <<>>
            THEN /\ deck' = b[1] /\ discard_card_pile' = b[2]
                 /\ players' = players
                 /\ pc' = "crashed"
            ELSE IF PyInRange(hand, inp - 1)
            THEN /\ deck' = Front(b[1])
                 /\ players' = [players EXCEPT
                                   ![turn] = Append(PyPop(hand, inp - 1), Last(b[1]))]
                 /\ discard_card_pile' = Append(b[2], PyGet(hand, inp - 1))
                 /\ pc' = "rearrange"
            ELSE /\ deck' = Front(b[1]) /\ discard_card_pile' = b[2]
                 /\ players' = players
                 /\ pc' = "crashed"
    /\ count' = [count EXCEPT !.turns = @ + 1, !.moves = @ + 1,
                              !.recycles = IF deck = <<>> THEN @ + 1 ELSE @]
    /\ UNCHANGED <<wild_card, turn>>
    /\ UNCHANGED checkLocals

\* a deck draw whose drawn card is dropped (line 215 left out)
DrawFromDeckDiscardDropsCard ==
    /\ pc = "draw"
    /\ count.turns < MaxTurns
    /\ \E b \in BeforePop :
        IF b[1] = <<>>
        THEN /\ deck' = b[1] /\ discard_card_pile' = b[2]
             /\ pc' = "crashed"
        ELSE /\ deck' = Front(b[1])
             /\ discard_card_pile' = b[2]
             /\ pc' = "rearrange"
    /\ count' = [count EXCEPT !.turns = @ + 1,
                              !.recycles = IF deck = <<>> THEN @ + 1 ELSE @]
    /\ UNCHANGED <<players, wild_card, turn>>
    /\ UNCHANGED checkLocals

\* lines 200-210, 214-215: draw from the deck, recycled first when it is
\* empty, and put the drawn card on the discard pile
DrawFromDeckDiscard ==
    /\ pc = "draw"
    /\ count.turns < MaxTurns
    /\ \E b \in BeforePop :
        IF b[1] = <<>>
        THEN /\ deck' = b[1] /\ discard_card_pile' = b[2]
             /\ pc' = "crashed"
        ELSE /\ deck' = Front(b[1])
             /\ discard_card_pile' = Append(b[2], Last(b[1]))
             /\ pc' = "rearrange"
    /\ count' = [count EXCEPT !.turns = @ + 1,
                              !.recycles = IF deck = <<>> THEN @ + 1 ELSE @]
    /\ UNCHANGED <<players, wild_card, turn>>
    /\ UNCHANGED checkLocals

\* key(a) > key(b) for the key of line 224 (by rank) or of line 227
KeyGreater(a, b, byRank) ==
    IF byRank THEN a.rank > b.rank ELSE SuitRankLess(b, a)

\* insert c behind every card whose key is not smaller
RECURSIVE InsertDescending(_, _, _)
InsertDescending(sorted, c, byRank) ==
    IF sorted = <<>> THEN <<c>>
    ELSE IF KeyGreater(c, Head(sorted), byRank) THEN <<c>> \o sorted
    ELSE <<Head(sorted)>> \o InsertDescending(Tail(sorted), c, byRank)

\* hand.sort(key = ..., reverse = True): stable, cards of equal key keep
\* their order
RECURSIVE SortDescending(_, _)
SortDescending(cards, byRank) ==
    IF cards = <<>> THEN <<>>
    ELSE InsertDescending(SortDescending(Front(cards), byRank), Last(cards), byRank)

\* a swap that loses the first card: hand[i] = hand[j], then hand[j] = hand[i]
swap_cardOverwrites(hand, card1_ind, card2_ind) ==
    [hand EXCEPT ![PyPos(hand, card1_ind)] = PyGet(hand, card2_ind)]

\* Player.swap_card with Python indices
swap_card(hand, card1_ind, card2_ind) ==
    [hand EXCEPT ![PyPos(hand, card1_ind)] = PyGet(hand, card2_ind),
                 ![PyPos(hand, card2_ind)] = PyGet(hand, card1_ind)]

\* what the player may enter for a swap: the first card, the last (0 is
\* Python index -1) and one past the end (IndexError)
SwapInputs == {0, 1, HandSize + 1}

\* line 223-225: sort the hand by rank, highest first
SortByRank ==
    /\ pc = "rearrange"
    /\ MayMove
    /\ players' = [players EXCEPT ![turn] = SortDescending(@, TRUE)]
    /\ count' = Bump("moves")
    /\ UNCHANGED <<pc, deck, discard_card_pile, wild_card, turn>>
    /\ UNCHANGED checkLocals

\* line 226-228: sort the hand by suit and rank, highest first
SortBySuitAndRank ==
    /\ pc = "rearrange"
    /\ MayMove
    /\ players' = [players EXCEPT ![turn] = SortDescending(@, FALSE)]
    /\ count' = Bump("moves")
    /\ UNCHANGED <<pc, deck, discard_card_pile, wild_card, turn>>
    /\ UNCHANGED checkLocals

\* line 229-232: swap two cards of the hand
SwapCards ==
    /\ pc = "rearrange"
    /\ MayMove
    /\ \E i, j \in SwapInputs :
        LET hand == players[turn]
        IN  IF PyInRange(hand, i - 1) /\ PyInRange(hand, j - 1)
            THEN /\ players' = [players EXCEPT ![turn] = swap_card(hand, i - 1, j - 1)]
                 /\ pc' = pc
            ELSE /\ players' = players
                 /\ pc' = "crashed"
    /\ count' = Bump("moves")
    /\ UNCHANGED <<deck, discard_card_pile, wild_card, turn>>
    /\ UNCHANGED checkLocals

\* lines 233-240 with the answer "n" to the win check: the turn ends
EndTurn ==
    /\ pc = "rearrange"
    /\ UNCHANGED <<players, deck, discard_card_pile, wild_card, count>>
    /\ UNCHANGED checkLocals
    /\ NextTurn

\* lines 240-245: the win check starts on a copy of the hand
StartWinCheck ==
    /\ pc = "rearrange"
    /\ MayMove
    /\ player_hand' = players[turn]
    /\ has_atleast_one_natural' = FALSE
    /\ accepted' = <<>>
    /\ UNCHANGED <<players, deck, discard_card_pile, wild_card, count,
                   card_ind, set_flag, run_flag>>
    /\ IF players[turn] = <<>>
       THEN NextTurn
       ELSE pc' = "check" /\ turn' = turn

\* insert i behind every number that is not greater
RECURSIVE InsertAscending(_, _)
InsertAscending(sorted, i) ==
    IF sorted = <<>> THEN <<i>>
    ELSE IF i < Head(sorted) THEN <<i>> \o sorted
    ELSE <<Head(sorted)>> \o InsertAscending(Tail(sorted), i)

\* card_ind.sort()
RECURSIVE SortAscending(_)
SortAscending(ind) ==
    IF ind = <<>> THEN <<>>
    ELSE InsertAscending(SortAscending(Front(ind)), Last(ind))

\* the removal without deleted_counter: pop i-1 for each i of the sorted list
RECURSIVE RemoveSelectedNoShift(_, _, _)
RemoveSelectedNoShift(hand, sorted_ind, deleted_counter) ==
    IF deleted_counter >= Len(sorted_ind) THEN <<TRUE, hand>>
    ELSE LET k == sorted_ind[deleted_counter + 1] - 1
         IN  IF PyInRange(hand, k)
             THEN RemoveSelectedNoShift(PyPop(hand, k), sorted_ind, deleted_counter + 1)
             ELSE <<FALSE, hand>>

\* lines 255-259 and 274-278: pop i-1-deleted_counter for each i of the
\* sorted list; <<TRUE, hand>> or, when a pop raises IndexError, <<FALSE, hand>>
RECURSIVE RemoveSelected(_, _, _)
RemoveSelected(hand, sorted_ind, deleted_counter) ==
    IF deleted_counter >= Len(sorted_ind) THEN <<TRUE, hand>>
    ELSE LET k == sorted_ind[deleted_counter + 1] - 1 - deleted_counter
         IN  IF PyInRange(hand, k)
             THEN RemoveSelected(PyPop(hand, k), sorted_ind, deleted_counter + 1)
             ELSE <<FALSE, hand>>

checkForWin(hand, atleast_one_natrual) ==
    Len(hand) = 0 /\ atleast_one_natrual

\* the index lists the player may enter in the win check
Selections ==
    {<<1, 2, 3>>, <<2, 3, 4>>, <<3, 1, 2>>, <<1, 2, 3, 4>>, <<4, 5, 6>>,
     <<1, 2, 3, 4, 5, 6, 7, 8, 9, 10>>,
     <<1, 2>>, <<1, 1, 1>>, <<0, 1, 2>>, <<9, 10, 11>>}

\* how play() goes on after a group was accepted (lines 263-266, 282-285,
\* 293-297 and the loop test of line 245)
AfterAccepted(hand, natural) ==
    IF checkForWin(hand, natural)
    THEN pc' = "won" /\ turn' = turn
    ELSE IF Len(hand) > 0
    THEN pc' = "check" /\ turn' = turn
    ELSE NextTurn

\* a set check that pops from the player's own hand (no deepcopy at line 242)
CheckSetOnRealHand ==
    /\ pc = "check"
    /\ MayMove
    /\ count' = Bump("moves")
    /\ UNCHANGED <<deck, discard_card_pile, wild_card, card_ind, run_flag>>
    /\ \E ind \in Selections :
        LET flag == is_valid_set(player_hand, ind, wild_card)
            removed == RemoveSelected(player_hand, SortAscending(ind), 0)
        IN  IF flag = <<>> \/ ~removed[1]
            THEN /\ pc' = "crashed" /\ turn' = turn
                 /\ UNCHANGED <<players, set_flag, player_hand,
                                has_atleast_one_natural, accepted>>
            ELSE IF ~flag[1]
            THEN /\ set_flag' = flag
                 /\ pc' = pc /\ turn' = turn
                 /\ UNCHANGED <<players, player_hand, has_atleast_one_natural,
                                accepted>>
            ELSE /\ set_flag' = flag
                 /\ player_hand' = removed[2]
                 /\ players' = [players EXCEPT ![turn] = removed[2]]
                 /\ accepted' = Append(accepted,
                        [kind |-> "set", ind |-> ind,
                         cards |-> SelectCards(player_hand, ind)])
                 /\ has_atleast_one_natural' =
                        (has_atleast_one_natural \/ flag[2])
                 /\ AfterAccepted(removed[2], has_atleast_one_natural')

\* lines 248-266: check a set
CheckSet ==
    /\ pc = "check"
    /\ MayMove
    /\ count' = Bump("moves")
    /\ UNCHANGED <<players, deck, discard_card_pile, wild_card, card_ind, run_flag>>
    /\ \E ind \in Selections :
        LET flag == is_valid_set(player_hand, ind, wild_card)
            removed == RemoveSelected(player_hand, SortAscending(ind), 0)
        IN  IF flag = <<>>
            THEN /\ pc' = "crashed" /\ turn' = turn
                 /\ UNCHANGED <<set_flag, player_hand, has_atleast_one_natural, accepted>>
            ELSE IF ~flag[1]
            THEN /\ set_flag' = flag
                 /\ pc' = pc /\ turn' = turn
                 /\ UNCHANGED <<player_hand, has_atleast_one_natural, accepted>>
            ELSE /\ set_flag' = flag
                 /\ player_hand' = removed[2]
                 /\ accepted' = Append(accepted,
                        [kind |-> "set", ind |-> ind,
                         cards |-> SelectCards(player_hand, ind)])
                 /\ IF ~removed[1]
                    THEN /\ pc' = "crashed" /\ turn' = turn
                         /\ UNCHANGED has_atleast_one_natural
                    ELSE /\ has_atleast_one_natural' =
                                (has_atleast_one_natural \/ flag[2])
                         /\ AfterAccepted(removed[2], has_atleast_one_natural')

\* lines 267-285: check a run; line 280 reads set_flag[1]
CheckRun ==
    /\ pc = "check"
    /\ MayMove
    /\ count' = Bump("moves")
    /\ UNCHANGED <<players, deck, discard_card_pile, wild_card, set_flag,
                   card_ind, run_flag>>
    /\ \E ind \in Selections :
        LET flag == is_valid_run(player_hand, ind, wild_card)
            removed == RemoveSelected(player_hand, SortAscending(ind), 0)
        IN  IF flag = <<>>
            THEN /\ pc' = "crashed" /\ turn' = turn
                 /\ UNCHANGED <<player_hand, has_atleast_one_natural, accepted>>
            ELSE IF ~flag[1]
            THEN /\ pc' = pc /\ turn' = turn
                 /\ UNCHANGED <<player_hand, has_atleast_one_natural, accepted>>
            ELSE /\ player_hand' = removed[2]
                 /\ accepted' = Append(accepted,
                        [kind |-> "run", ind |-> ind,
                         cards |-> SelectCards(player_hand, ind)])
                 /\ IF ~removed[1] \/ Len(set_flag) < 2
                    THEN /\ pc' = "crashed" /\ turn' = turn
                         /\ UNCHANGED has_atleast_one_natural
                    ELSE /\ has_atleast_one_natural' =
                                (has_atleast_one_natural \/ set_flag[2])
                         /\ AfterAccepted(removed[2], has_atleast_one_natural')

\* lines 286-288: reset cards
ResetCards ==
    /\ pc = "check"
    /\ MayMove
    /\ count' = Bump("moves")
    /\ player_hand' = players[turn]
    /\ UNCHANGED <<pc, players, deck, discard_card_pile, wild_card, turn,
                   has_atleast_one_natural, card_ind, set_flag, run_flag, accepted>>

\* lines 289-294: exit, or any other number.  The working hand and the
\* has-natural flag are not read again before lines 242-243 assign them, so
\* they go back to their first values.
ExitCheck ==
    /\ pc = "check"
    /\ player_hand' = <<>>
    /\ has_atleast_one_natural' = FALSE
    /\ accepted' = <<>>
    /\ UNCHANGED <<players, deck, discard_card_pile, wild_card, count,
                   set_flag, card_ind, run_flag>>
    /\ NextTurn

Next ==
    \/ DrawFromDiscardPile
    \/ DrawFromDeckKeep
    \/ DrawFromDeckDiscard
    \/ SortByRank
    \/ SortBySuitAndRank
    \/ SwapCards
    \/ EndTurn
    \/ StartWinCheck
    \/ CheckSet
    \/ CheckRun
    \/ ResetCards
    \/ ExitCheck

Spec == Init /\ [][Next]_vars

(***************************************************************************)
(* What the claims say, stated apart from the code's own tests             *)
(***************************************************************************)
\* a card is wild iff it is the Joker or its rank equals the wild rank
ClaimWild(card) == card.rank = 14 \/ card.rank = wild_card.rank

\* the index list names positions 1..Len(hand), no position twice
DistinctInRange(hand, ind) ==
    /\ \A k \in 1..Len(ind) : ind[k] \in 1..Len(hand)
    /\ \A j, k \in 1..Len(ind) : j # k => ind[j] # ind[k]

\* a validator's result reports the selection valid
ReportsValid(result) == Len(result) >= 1 /\ result[1]

Selected == SelectCards(player_hand, card_ind)

NonWildSelected == {Selected[k] : k \in {j \in 1..Len(Selected) : ~ClaimWild(Selected[j])}}

NumWildSelected == Cardinality({j \in 1..Len(Selected) : ClaimWild(Selected[j])})

\* ranks strictly between the lowest and the highest non-wild rank that no
\* non-wild card has: the sum over consecutive pairs of (gap - 1)
MissingRanks ==
    LET ranks == {c.rank : c \in NonWildSelected}
    IN  {r \in 1..13 : /\ r \notin ranks
                       /\ \E lo, hi \in ranks : lo < r /\ r < hi}

RunRule ==
    /\ \A a, b \in NonWildSelected : a.suit = b.suit
    /\ \A a, b \in NonWildSelected : a # b => a.rank # b.rank
    /\ Cardinality(MissingRanks) <= NumWildSelected

Validated == pc = "validated"

\* C4: with fewer than 3 indices both validators report the selection invalid
C4_ShortSelectionInvalid ==
    (Validated /\ Len(card_ind) < 3) =>
        (/\ Len(set_flag) >= 1 /\ ~set_flag[1]
         /\ Len(run_flag) >= 1 /\ ~run_flag[1])

\* two cards of one suit and consecutive ranks, which only the length rejects
C4_Witness ==
    /\ Validated /\ Len(card_ind) = 2 /\ DistinctInRange(player_hand, card_ind)
    /\ Selected[1].suit = Selected[2].suit
    /\ Selected[2].rank = Selected[1].rank + 1
    /\ NumWildSelected = 0
    /\ set_flag = <<FALSE>> /\ run_flag = <<FALSE>>

\* C5: for 3 or more distinct in-range indices with a non-wild card among the
\* selected, is_valid_set reports valid iff all non-wild selected cards have
\* the same rank, wherever the wild cards sit
C5_SetValidIffSameRank ==
    (/\ Validated /\ Len(card_ind) >= 3
     /\ DistinctInRange(player_hand, card_ind)
     /\ NonWildSelected # {}) =>
        (ReportsValid(set_flag) <=>
            \A a, b \in NonWildSelected : a.rank = b.rank)

\* C6: for 3 or more distinct in-range indices is_valid_run reports valid iff
\* the non-wild selected cards share one suit, have distinct ranks and leave
\* no more ranks missing between them than there are wild cards selected
C6_RunValidIffRule ==
    (/\ Validated /\ Len(card_ind) >= 3
     /\ DistinctInRange(player_hand, card_ind)) =>
        (ReportsValid(run_flag) <=> RunRule)

\* a run whose gap a wild card fills, with a second wild card left unused
C6_Witness ==
    /\ Validated /\ Len(card_ind) >= 3
    /\ DistinctInRange(player_hand, card_ind)
    /\ ReportsValid(run_flag)
    /\ Cardinality(MissingRanks) = 1
    /\ NumWildSelected = 2

\* C7: the isNatural flag a validator returns (the second element, where the
\* result has one) is true iff no selected card is wild
C7_NaturalIffNoWild ==
    (Validated /\ Len(card_ind) >= 3) =>
        /\ ~IndexRaises(player_hand, card_ind) => Len(set_flag) = 2
        /\ Len(set_flag) = 2 => (set_flag[2] <=> NumWildSelected = 0)
        /\ Len(run_flag) = 2 => (run_flag[2] <=> NumWildSelected = 0)

\* two wild cards side by side, the second of which the set loop steps over
C7_Witness ==
    /\ Validated /\ Len(card_ind) >= 3
    /\ DistinctInRange(player_hand, card_ind)
    /\ ClaimWild(Selected[1]) /\ ClaimWild(Selected[2])
    /\ Len(set_flag) = 2 /\ ~set_flag[2]
    /\ run_flag = <<TRUE, FALSE>>

\* C8: a selection of 3 or more cards that are all wild is reported invalid
\* by is_valid_set
C8_AllWildSetInvalid ==
    (/\ Validated /\ Len(card_ind) >= 3
     /\ DistinctInRange(player_hand, card_ind)
     /\ NonWildSelected = {}) =>
        ~ReportsValid(set_flag)

PermutationsOf(n) == {p \in [1..n -> 1..n] : \A j, k \in 1..n : j # k => p[j] # p[k]}

Permuted(ind, p) == [k \in 1..Len(ind) |-> ind[p[k]]]

\* C9: every permutation of the index list gets the same validity from
\* is_valid_set and from is_valid_run
C9_ValidityIgnoresOrder ==
    Validated =>
        \A p \in PermutationsOf(Len(card_ind)) :
            /\ ReportsValid(is_valid_set(player_hand, Permuted(card_ind, p), wild_card))
                   <=> ReportsValid(set_flag)
            /\ ReportsValid(is_valid_run(player_hand, Permuted(card_ind, p), wild_card))
                   <=> ReportsValid(run_flag)

\* every card of the table, the wild card included
CardsOnTable ==
    LET RECURSIVE Hands(_)
        Hands(p) == IF p = 0 THEN <<>> ELSE Hands(p - 1) \o players[p]
    IN  deck \o discard_card_pile \o Hands(Len(players)) \o <<wild_card>>

\* the 52 suit/rank pairs and the Joker
OriginalCards ==
    {[suit |-> su, rank |-> ra] : su \in 0..3, ra \in 1..13} \cup
    {[suit |-> 4, rank |-> 14]}

\* C1: at the start of every turn the deck, the discard pile, the hands and
\* the wild card are exactly the original 53 cards, each once
C1_CardsConserved ==
    pc = "draw" =>
        /\ Len(CardsOnTable) = 53
        /\ {CardsOnTable[k] : k \in 1..Len(CardsOnTable)} = OriginalCards

\* a turn that starts after the discard pile was recycled, in the game whose
\* player 1 was dealt Clubs only and has since kept a card of another suit
C1_Witness ==
    /\ pc = "draw"
    /\ count.recycles >= 1
    /\ wild_card = [suit |-> 1, rank |-> 1]
    /\ \E k \in 1..Len(players[1]) : players[1][k].suit # 0

NoWildIn(cards) == \A k \in 1..Len(cards) : ~ClaimWild(cards[k])

\* C2: a win is declared only with the working hand empty and a group
\* without wild cards among the groups accepted in the win check
C2_WinNeedsNaturalGroup ==
    pc = "won" =>
        /\ player_hand = <<>>
        /\ \E k \in 1..Len(accepted) : NoWildIn(accepted[k].cards)

\* C3: a win is declared only with two groups accepted as runs, one of them
\* without wild cards
C3_WinNeedsTwoRuns ==
    pc = "won" =>
        /\ Cardinality({k \in 1..Len(accepted) : accepted[k].kind = "run"}) >= 2
        /\ \E k \in 1..Len(accepted) :
              accepted[k].kind = "run" /\ NoWildIn(accepted[k].cards)

\* C10: no group is accepted whose index list names a position twice
C10_NoRepeatedIndexAccepted ==
    \A k \in 1..Len(accepted) :
        \A i, j \in 1..Len(accepted[k].ind) :
            i # j => accepted[k].ind[i] # accepted[k].ind[j]

(***************************************************************************)
(* The win-check sub-phase and the turn loop, step by step                 *)
(***************************************************************************)
\* lines 280-281: the has-natural flag after an accepted run, <<>> when
\* set_flag[1] raises (set_flag unbound, or [False] from a short selection)
NaturalAfterRun(flag, natural) ==
    IF Len(flag) < 2 THEN <<>> ELSE <<natural \/ flag[2]>>

\* a step of a set check or a run check
CheckStep == CheckSet \/ CheckRun

\* a check that reports the selection invalid: no exception, no group accepted
FailedCheck == CheckStep /\ pc' # "crashed" /\ accepted' = accepted

\* a check that accepts the selection
AcceptingStep == CheckStep /\ Len(accepted') = Len(accepted) + 1

LastAccepted == accepted[Len(accepted)]

\* C11: a check that reports the selection invalid leaves the working hand
\* and the has-natural flag as they were, keeps the sub-phase open and leaves
\* what a later accepted run makes of the has-natural flag as it was
C11_FailedCheckChangesNothing ==
    [][FailedCheck =>
          /\ player_hand' = player_hand
          /\ has_atleast_one_natural' = has_atleast_one_natural
          /\ pc' = "check"
          /\ NaturalAfterRun(set_flag', has_atleast_one_natural')
                 = NaturalAfterRun(set_flag, has_atleast_one_natural)]_vars

\* a step of the win-check sub-phase: its start, a check, a reset, its end
WinCheckStep ==
    StartWinCheck \/ CheckSet \/ CheckRun \/ ResetCards \/ ExitCheck

\* C12: no step of the win-check sub-phase changes a player's hand, the deck
\* or the discard pile
C12_WinCheckKeepsRealHand ==
    [][WinCheckStep => UNCHANGED <<players, deck, discard_card_pile>>]_vars

\* a win check that has accepted a group: the working hand is shorter than
\* the player's hand, which still holds its 10 cards
C12_Witness ==
    /\ pc = "check"
    /\ Len(accepted) >= 1
    /\ DistinctInRange(players[turn], accepted[1].ind)
    /\ Len(player_hand) < Len(players[turn])
    /\ Len(players[turn]) = HandSize

\* C13: a run check that accepts distinct in-range indices does not raise,
\* and the has-natural flag becomes its old value or the isNatural result of
\* that run validation
C13_RunCheckUsesOwnNatural ==
    [][(/\ CheckRun /\ Len(accepted') = Len(accepted) + 1
        /\ DistinctInRange(player_hand, LastAccepted'.ind)) =>
          /\ pc' # "crashed"
          /\ has_atleast_one_natural' =
                (has_atleast_one_natural
                 \/ is_valid_run(player_hand, LastAccepted'.ind, wild_card)[2])]_vars

\* C14: after a reset the working hand is the player's hand and the
\* has-natural flag is false
C14_ResetReturnsToStart ==
    [][ResetCards =>
          /\ player_hand' = players[turn]
          /\ ~has_atleast_one_natural']_vars

\* the cards of hand at the positions ind does not name, in their order
RECURSIVE WithoutPositions(_, _)
WithoutPositions(hand, ind) ==
    IF hand = <<>> THEN <<>>
    ELSE WithoutPositions(Front(hand), ind) \o
         (IF \E k \in 1..Len(ind) : ind[k] = Len(hand)
          THEN <<>> ELSE <<Last(hand)>>)

\* C15: when a group of distinct in-range indices is accepted, the working
\* hand loses exactly the cards at those positions, as many as there are
\* indices, and the others keep their order
C15_RemovesSelectedCards ==
    [][(AcceptingStep /\ DistinctInRange(player_hand, LastAccepted'.ind)) =>
          /\ player_hand' = WithoutPositions(player_hand, LastAccepted'.ind)
          /\ Len(player_hand') = Len(player_hand) - Len(LastAccepted'.ind)]_vars

\* a group accepted from indices given out of order: positions 3, 1, 2 of
\* the full hand are gone and the card that was fourth is now first
C15_Witness ==
    /\ pc = "check"
    /\ Len(accepted) = 1
    /\ accepted[1].ind = <<3, 1, 2>>
    /\ Len(player_hand) = HandSize - 3
    /\ player_hand[1] = players[turn][4]

\* how often card c occurs in cards
Count(cards, c) == Cardinality({k \in 1..Len(cards) : cards[k] = c})

CardsOf(cards) == {cards[k] : k \in 1..Len(cards)}

\* a deck draw that finds the deck empty
RecycleStep ==
    pc = "draw" /\ deck = <<>> /\ (DrawFromDeckKeep \/ DrawFromDeckDiscard)

\* C16: a deck draw that finds the deck empty leaves the former top card at
\* the bottom of the discard pile, under at most the one card the turn puts
\* on it, and the deck is the other cards of the old pile less the one card
\* drawn; the former top card is not in the deck
C16_RecycleKeepsTopCard ==
    [][RecycleStep =>
          LET top == Last(discard_card_pile)
              others == Front(discard_card_pile)
          IN  /\ Len(discard_card_pile') \in {1, 2}
              /\ discard_card_pile'[1] = top
              /\ Count(deck', top) = 0
              /\ \E drawn \in CardsOf(others) :
                    \A c \in CardsOf(others) \cup CardsOf(deck') :
                        Count(deck', c) + (IF c = drawn THEN 1 ELSE 0)
                            = Count(others, c)]_vars

\* the turn after a recycle has drawn and discarded: the pile holds the
\* former top card and the card drawn, the deck the rest
C16_Witness ==
    /\ pc = "rearrange"
    /\ count.recycles = 1
    /\ Len(discard_card_pile) = 2
    /\ Len(deck) = 50 - HandSize * Len(players)

\* the player after p in the order of play
NextPlayer(p) == (p % Len(players)) + 1

\* C17: the turn that begins after k turns belongs to player k mod n of the
\* order of play (positions count from 1), the order of play never changes,
\* a turn is followed by the next player's turn, and nothing happens after
\* a win
C17_TurnsCyclicUntilWin ==
    /\ [](pc = "draw" => turn = (count.turns % Len(players)) + 1)
    /\ [][/\ pc # "won"
          /\ Len(players') = Len(players)
          /\ pc = "draw" => turn' = turn /\ pc' # "draw"
          /\ (pc # "draw" /\ pc' = "draw") => turn' = NextPlayer(turn)
          /\ pc' = "won" => turn' = turn]_vars

\* a win in the winner's second turn, every player having had a turn
C17_Witness ==
    /\ pc = "won"
    /\ count.turns > Len(players)
    /\ turn = 1

\* C18: at every turn start the deck and the discard pile together hold
\* 52 - 10n cards, so an empty deck meets a pile of at least 2 cards and
\* pop_card is never called on an empty deck
C18_DeckNeverPoppedEmpty ==
    pc = "draw" =>
        /\ Len(deck) + Len(discard_card_pile) = 52 - HandSize * Len(players)
        /\ deck = <<>> => Len(discard_card_pile) >= 2
        /\ \A b \in BeforePop : b[1] # <<>>

\* a turn that starts with the deck empty
C18_Witness ==
    /\ pc = "draw"
    /\ deck = <<>>
    /\ Len(discard_card_pile) = 52 - HandSize * Len(players)

\* C19: a turn never starts, and is never in its rearranging or win-check
\* phase, with the discard pile empty
C19_PileNeverEmpty ==
    pc \in {"draw", "rearrange", "check"} => discard_card_pile # <<>>

\* player 2's first turn starts on a pile of one card, a Club that player 1
\* discarded after drawing the only card of the pile
C19_Witness ==
    /\ pc = "draw"
    /\ turn = 2
    /\ count.turns = 1
    /\ wild_card = Card(1, 1)
    /\ Len(discard_card_pile) = 1
    /\ discard_card_pile[1].suit = 0

\* hand without the card at position k
WithoutCard(hand, k) == SubSeq(hand, 1, k - 1) \o SubSeq(hand, k + 1, Len(hand))

\* the hand of the player whose turn it is gave one card to the discard pile
\* and got drawn as its last card
KeptDraw(drawn) ==
    \E k \in 1..Len(players[turn]) :
        /\ players'[turn] = Append(WithoutCard(players[turn], k), drawn)
        /\ Last(discard_card_pile') = players[turn][k]

SameCards(hand1, hand2) ==
    \A c \in CardsOf(hand1) \cup CardsOf(hand2) : Count(hand1, c) = Count(hand2, c)

\* C20: every hand holds 10 cards in every state; a draw that is kept swaps
\* one hand card for the drawn card, a deck draw that is discarded leaves the
\* hands alone, rearranging and win-checking keep the cards of every hand,
\* and no step changes the hand of a player whose turn it is not
C20_HandsHoldTenCards ==
    /\ [](\A p \in 1..Len(players) : Len(players[p]) = HandSize)
    /\ [][/\ \A p \in 1..Len(players) : p # turn => players'[p] = players[p]
          /\ (DrawFromDiscardPile /\ pc' # "crashed")
                 => KeptDraw(Last(discard_card_pile))
          /\ (DrawFromDeckKeep /\ pc' # "crashed")
                 => KeptDraw(Last(players'[turn]))
          /\ DrawFromDeckDiscard => players' = players
          /\ pc \in {"rearrange", "check"}
                 => SameCards(players'[turn], players[turn])]_vars

\* player 2's turn starts after player 1 kept a drawn card of another suit
\* and rearranged the hand
C20_Witness ==
    /\ pc = "draw"
    /\ turn = 2
    /\ count.moves = MaxMoves
    /\ wild_card = Card(1, 1)
    /\ \E k \in 1..HandSize : players[1][k].suit # 0
    /\ players[1][HandSize].suit = 0
====
